---------------------------- MODULE Spec2Model ----------------------------
(***************************************************************************)
(* Live telemetry pipeline of study-eyes: the three WebSocket service      *)
(* classes of the frontend and their event bus.                            *)
(*                                                                         *)
(*   "R"  RealWebSocketService   frontend/src/services/realWebSocketService.ts:35-275  *)
(*   "W"  WebSocketService       frontend/src/services/realWebSocketService.ts:283-501 *)
(*   "M"  MockWebSocketService   unnamed/part_008:1-189                    *)
(*                                                                         *)
(* svc names the class that is instantiated.  A socket.io socket is one of *)
(* "connecting", "connected", "closed" (a failed attempt or a dropped      *)
(* transport; its handlers stay attached) and "destroyed" (after a local   *)
(* socket.disconnect()).  The transport makes the connect attempts the     *)
(* service asks for (io(...) with autoConnect, socket.connect()) and ends  *)
(* each of them with a 'connect' or a 'connect_error' event.  Only SpecRA  *)
(* adds the reconnection socket.io makes by itself: there a socket whose   *)
(* transport was lost is "reopening" until its next 'connect' event.       *)
(*                                                                         *)
(* Time is counted in units of reconnectDelay (1000 ms): every delay the   *)
(* services hand to setTimeout is a multiple of it.  timers is the list of *)
(* pending setTimeout callbacks in the order they were scheduled, each     *)
(* with the time that remains.                                             *)
(***************************************************************************)
EXTENDS Integers, Sequences, FiniteSets, TLC

VARIABLES
    svc,                \* "R" | "W" | "M": the class instantiated
    socks,              \* the sockets created by io(...), in creation order
    cur,                \* this.socket: an index of socks, 0 for null
    reconnectAttempts,  \* this.reconnectAttempts
    isConnected,        \* R: this.isConnected; M: this.isConnectionActive
    timers,             \* pending setTimeout callbacks
    listeners,          \* eventListeners / listeners / eventHandlers
    emitted,            \* what this.emit published during the last step
    calls,              \* the callback invocations of the last step, in order
    sent,               \* what socket.emit sent to the server during the last step
    sessionActive,      \* M: this.sessionActive
    focusSimulationInterval, \* M: the interval handle kept, 0 for null
    nextInterval,       \* the id setInterval returns next
    now,                \* M: the clock behind Date.now(), in units of reconnectDelay
    last,               \* the last step: [op, arg, cb, ok]
    phase,              \* history: the session's status by the calls made so far
    prevListeners,      \* history: listeners before the last on/off call
    removed,            \* history: the <<event, callback>> pairs off() was called with, and on() not since
    recentFrames,       \* history: the last two tracking_data frames, oldest first
    nAttempts,          \* history: connect attempts started so far
    nConnects,          \* history: 'connect' events so far
    delays,             \* history: retry delays scheduled since the last 'connect' or reconnect()
    nMaxEmits,          \* history: max_reconnect_attempts_reached emits since the last reconnect()
    userCalled,         \* history: disconnect() or reconnect() has been called
    localDisc,          \* history: disconnect() was called and no connect/reconnect call since
    lastStatus,         \* history: "true" | "false", the connection_status published last; "none" before
    escaped,            \* history: an exception left the handler of the last step
    stopMark,           \* history: M: nextInterval at the last stopTracking (intervals below it are older)
    activeSid,          \* history: the session Tracking or Paused by the calls made so far, "" for none
    startedAt,          \* history: M: the clock at the startTracking of a timed run
    frameLog,           \* history: M: the timestamps of the frames published since then
    mounted,            \* WebSocketProvider: an instance is mounted
    generation,         \* history: how many times a WebSocketProvider was mounted
    alerts,             \* WebSocketProvider: the alerts state
    nAlerts,            \* history: attention_alert events the provider received so far
    clearedAt           \* history: nAlerts when the provider last emptied alerts

vars == <<svc, socks, cur, reconnectAttempts, isConnected, timers, listeners,
          emitted, calls, sent, sessionActive, focusSimulationInterval, nextInterval,
          now, last, phase, prevListeners, removed, recentFrames,
          nAttempts, nConnects, delays, nMaxEmits, userCalled, localDisc,
          lastStatus, escaped, stopMark, activeSid, startedAt, frameLog,
          alerts, nAlerts, clearedAt, mounted, generation>>

\* what the connection steps leave alone
sessVars == <<now, phase>>
busHist == <<prevListeners, removed>>
connHist == <<userCalled, localDisc>>
sessHist == <<stopMark, activeSid, startedAt, frameLog>>
mountVars == <<mounted, generation>>
ctxVars == <<alerts, nAlerts, clearedAt, mountVars>>

----------------------------------------------------------------------------
(* Bounds of the model *)

MaxSockets == 2      \* sockets created in one run (bounds reconnect() calls)
MaxConnects == 1     \* 'connect' events in one run
MaxTimers == 3       \* pending setTimeout callbacks and live intervals
MaxIntervals == 3    \* intervals created in one run
MaxNow == 3          \* how far the clock of the mock runs
MaxRegs == 3         \* registrations on one event
MaxTimedNow == 12    \* how far the clock of the mock runs in a timed run
MaxPoolSockets == 12 \* sockets created in a run with many sockets
MaxPoolTimers == 6   \* retries pending at once in a run with many sockets
MaxMounts == 3       \* WebSocketProviders mounted in one run
MaxAlerts == 12      \* attention_alert events the provider receives in one run

(* Program constants *)

maxReconnectAttempts == 5
reconnectDelay == 1000
RingKeep == 9        \* prev.slice(-9) of the provider's attention_alert callback

Callbacks == {"cbA", "cbB"}

Events == {"connection_status", "connection_error", "max_reconnect_attempts_reached",
           "eye_tracking_data", "focus_score_update", "attention_alert",
           "tracking_status", "session_started", "session_paused",
           "session_resumed", "session_ended", "error"}

NoData == [none |-> TRUE]

----------------------------------------------------------------------------
(* The state a handler works on, as one record, so that handlers compose.  *)

St == [socks |-> socks, cur |-> cur, att |-> reconnectAttempts, conn |-> isConnected,
       timers |-> timers, listeners |-> listeners, emitted |-> <<>>, calls |-> <<>>,
       sent |-> <<>>, sessionActive |-> sessionActive, fsi |-> focusSimulationInterval,
       nextInterval |-> nextInterval, nAttempts |-> nAttempts, nConnects |-> nConnects,
       delays |-> delays, nMaxEmits |-> nMaxEmits, lastStatus |-> lastStatus,
       thrown |-> FALSE]

Commit(s) ==
    /\ socks' = s.socks
    /\ cur' = s.cur
    /\ reconnectAttempts' = s.att
    /\ isConnected' = s.conn
    /\ timers' = s.timers
    /\ listeners' = s.listeners
    /\ emitted' = s.emitted
    /\ calls' = s.calls
    /\ sent' = s.sent
    /\ sessionActive' = s.sessionActive
    /\ focusSimulationInterval' = s.fsi
    /\ nextInterval' = s.nextInterval
    /\ nAttempts' = s.nAttempts
    /\ nConnects' = s.nConnects
    /\ delays' = s.delays
    /\ nMaxEmits' = s.nMaxEmits
    /\ lastStatus' = s.lastStatus
    /\ escaped' = s.thrown

RECURSIVE Pow(_, _)
Pow(b, e) == IF e = 0 THEN 1 ELSE b * Pow(b, e - 1)

----------------------------------------------------------------------------
(* Event bus: emit *)

\* emit(event, data): every callback registered on the event, in order
Emit(s, ev, data) ==
    [s EXCEPT !.emitted = Append(@, [event |-> ev, data |-> data]),
              !.calls = @ \o [i \in 1..Len(s.listeners[ev]) |-> <<s.listeners[ev][i], ev>>],
              !.nMaxEmits = IF ev = "max_reconnect_attempts_reached" THEN @ + 1 ELSE @,
              !.lastStatus = IF ev # "connection_status" THEN @
                             ELSE IF data.connected THEN "true" ELSE "false"]

\* emit while the callbacks in bad throw.  RealWebSocketService and
\* MockWebSocketService wrap each call in try/catch; in WebSocketService the
\* first exception ends the forEach and leaves emit.
EmitThrowing(s, ev, data, bad) ==
    LET cbs == s.listeners[ev]
        hit == {i \in 1..Len(cbs) : cbs[i] \in bad}
    IN IF svc = "W" /\ hit # {}
       THEN LET k == CHOOSE i \in hit : \A j \in hit : i <= j
            IN [Emit(s, ev, data) EXCEPT
                   !.calls = s.calls \o [i \in 1..k |-> <<cbs[i], ev>>],
                   !.thrown = TRUE]
       ELSE Emit(s, ev, data)

----------------------------------------------------------------------------
(* Event bus: on, off *)

\* Array.prototype.indexOf: the first index of x, 0 where JavaScript gives -1
RECURSIVE IndexFrom(_, _, _)
IndexFrom(seq, x, k) ==
    IF k > Len(seq) THEN 0
    ELSE IF seq[k] = x THEN k
    ELSE IndexFrom(seq, x, k + 1)

IndexOf(seq, x) == IndexFrom(seq, x, 1)

\* Array.prototype.splice(index, 1)
Splice1(seq, index) == SubSeq(seq, 1, index - 1) \o SubSeq(seq, index + 1, Len(seq))

\* unshift in place of push: the new registration goes first
On_unshift(s, ev, cb) == [s EXCEPT !.listeners[ev] = <<cb>> \o @]

On(s, ev, cb) == [s EXCEPT !.listeners[ev] = Append(@, cb)]

\* splice(index) without its count: everything from index on goes
Off_spliceTail(s, ev, cb) ==
    LET index == IndexOf(s.listeners[ev], cb)
    IN IF index > 0 THEN [s EXCEPT !.listeners[ev] = SubSeq(@, 1, index - 1)] ELSE s

Off(s, ev, cb) ==
    LET index == IndexOf(s.listeners[ev], cb)
    IN IF index > 0 THEN [s EXCEPT !.listeners[ev] = Splice1(@, index)] ELSE s

\* W and M: off(event) without a callback
OffEvent(s, ev) == [s EXCEPT !.listeners[ev] = <<>>]

\* Array.prototype.forEach over the event's array while callbacks call
\* off(ev, does[cb]) on it: index k runs from the first to the length the
\* array had when forEach began, and an index the array no longer has is
\* passed over.  does[cb] = "" for a callback that calls nothing.
RECURSIVE ForEach(_, _, _, _, _)
ForEach(s, ev, k, len, does) ==
    IF k > len THEN s
    ELSE IF k > Len(s.listeners[ev]) THEN ForEach(s, ev, k + 1, len, does)
    ELSE LET cb == s.listeners[ev][k]
             s1 == [s EXCEPT !.calls = Append(@, <<cb, ev>>)]
             s2 == IF does[cb] = "" THEN s1 ELSE Off(s1, ev, does[cb])
         IN ForEach(s2, ev, k + 1, len, does)

\* emit(event, data) during which callbacks call off()
EmitDuring(s, ev, data, does) ==
    ForEach([s EXCEPT !.emitted = Append(@, [event |-> ev, data |-> data])],
            ev, 1, Len(s.listeners[ev]), does)

----------------------------------------------------------------------------
(* socket.io-client, as the services use it *)

\* io(url, {forceNew: true, ...}): a new socket that connects at once
NewSocket(s) ==
    [s EXCEPT !.socks = Append(@, "connecting"),
              !.cur = Len(s.socks) + 1,
              !.nAttempts = @ + 1]

\* socket.connect(): opens a closed socket; nothing on one that is open or opening
SocketConnect(s, i) ==
    IF s.socks[i] = "closed"
    THEN [s EXCEPT !.socks[i] = "connecting", !.nAttempts = @ + 1]
    ELSE s

----------------------------------------------------------------------------
(* WebSocketService *)

\* the retry callback handed to setTimeout; id notes the socket that was
\* this.socket when the retry was scheduled
W_Timer(att, delay, sock) ==
    [kind |-> "W", att |-> att, id |-> sock, delay |-> delay, rem |-> delay \div reconnectDelay]

\* the retry limit tested with > in place of >=
W_handleReconnection_gt(s) ==
    IF s.att > maxReconnectAttempts
    THEN Emit(s, "max_reconnect_attempts_reached", NoData)
    ELSE LET a == s.att + 1
             delay == reconnectDelay * Pow(2, a - 1)
         IN [s EXCEPT !.att = a,
                      !.timers = Append(@, W_Timer(a, delay, s.cur)),
                      !.delays = Append(@, delay)]

W_handleReconnection(s) ==
    IF s.att >= maxReconnectAttempts
    THEN Emit(s, "max_reconnect_attempts_reached", NoData)
    ELSE LET a == s.att + 1
             delay == reconnectDelay * Pow(2, a - 1)
         IN [s EXCEPT !.att = a,
                      !.timers = Append(@, W_Timer(a, delay, s.cur)),
                      !.delays = Append(@, delay)]

\* the 'connect' handler without its reset of the counter
W_onConnect_noReset(s) ==
    Emit(s, "connection_status", [connected |-> TRUE])

W_onConnect(s) ==
    Emit([s EXCEPT !.att = 0], "connection_status", [connected |-> TRUE])

\* the 'disconnect' handler without its early return
W_onDisconnect_always(s, reason) ==
    W_handleReconnection(Emit(s, "connection_status", [connected |-> FALSE, reason |-> reason]))

W_onDisconnect(s, reason) ==
    LET s1 == Emit(s, "connection_status", [connected |-> FALSE, reason |-> reason])
    IN IF reason = "io server disconnect" THEN s1 ELSE W_handleReconnection(s1)

W_onConnectError(s) ==
    W_handleReconnection(Emit(s, "connection_error", [error |-> "connect failed"]))

\* the setTimeout callback of handleReconnection
W_retry(s) == IF s.cur # 0 THEN SocketConnect(s, s.cur) ELSE s

----------------------------------------------------------------------------
(* RealWebSocketService *)

R_Timer(att, delay) ==
    [kind |-> "R", att |-> att, id |-> 0, delay |-> delay, rem |-> delay \div reconnectDelay]

R_connect(s) == NewSocket(s)

R_onConnect(s) ==
    Emit([s EXCEPT !.conn = TRUE, !.att = 0], "connection_status", [connected |-> TRUE])

R_onDisconnect(s, reason) ==
    LET s1 == Emit([s EXCEPT !.conn = FALSE], "connection_status",
                   [connected |-> FALSE, reason |-> reason])
    IN IF s1.att < maxReconnectAttempts
       THEN LET delay == reconnectDelay * s1.att
            IN [s1 EXCEPT !.timers = Append(@, R_Timer(s1.att + 1, delay)),
                          !.delays = Append(@, delay)]
       ELSE s1

R_onConnectError(s) ==
    Emit(s, "connection_error", [error |-> "connect failed"])

\* the setTimeout callback of the 'disconnect' handler
R_retry(s) == R_connect([s EXCEPT !.att = @ + 1])

----------------------------------------------------------------------------
(* Handlers attached to a socket, by class *)

OnConnect(s) == IF svc = "W" THEN W_onConnect(s) ELSE R_onConnect(s)

OnDisconnect(s, reason) ==
    IF svc = "W" THEN W_onDisconnect(s, reason) ELSE R_onDisconnect(s, reason)

OnConnectError(s) == IF svc = "W" THEN W_onConnectError(s) ELSE R_onConnectError(s)

\* socket.disconnect(): destroys the socket; one that was connected fires
\* 'disconnect' with reason "io client disconnect" before the call returns
SocketDisconnect(s, i) ==
    LET s1 == [s EXCEPT !.socks[i] = "destroyed"]
    IN IF s.socks[i] = "connected" THEN OnDisconnect(s1, "io client disconnect") ELSE s1

----------------------------------------------------------------------------
(* Public connection management *)

W_disconnect(s) ==
    IF s.cur # 0 THEN [SocketDisconnect(s, s.cur) EXCEPT !.cur = 0] ELSE s

W_connect(s) == NewSocket(s)

W_reconnect(s) == W_connect([W_disconnect(s) EXCEPT !.att = 0])

R_disconnect(s) ==
    LET s1 == IF s.cur # 0 THEN [SocketDisconnect(s, s.cur) EXCEPT !.cur = 0] ELSE s
    IN [s1 EXCEPT !.conn = FALSE, !.listeners = [e \in Events |-> <<>>]]

----------------------------------------------------------------------------
(* Telemetry values are fixed-point numbers: v stands for v / Scale, so    *)
(* that the 0..1 scale of the synthetic generator and the 0..100 scale of  *)
(* the backend live in one domain.                                         *)

Scale == 10 * 10 * 10

Clamp(lo, hi, v) == IF v < lo THEN lo ELSE IF v > hi THEN hi ELSE v

Sessions == {"s1", "s2"}

\* a control message handed to socket.emit
Control(i, msg, sid, token) == [sock |-> i, msg |-> msg, session_id |-> sid, token |-> token]

Send(s, msg, sid, token) == [s EXCEPT !.sent = Append(@, Control(s.cur, msg, sid, token))]

----------------------------------------------------------------------------
(* RealWebSocketService: tracking *)

\* the 'tracking_data' handler: the frame as published, then the alerts
R_transform(data) ==
    [timestamp |-> data.timestamp,
     attention_score |-> data.attention_score,
     focus_level |-> data.focus_level,
     distraction_type |-> data.distraction_type,
     fatigue_level |-> data.fatigue_level,
     eye_strain_level |-> data.eye_strain_level,
     posture_score |-> data.posture_score,
     gaze |-> [x |-> data.gaze_direction_x, y |-> data.gaze_direction_y],
     eyes |-> [left_ratio |-> data.left_eye_ratio, right_ratio |-> data.right_eye_ratio,
               blink_detected |-> data.blink_detected],
     head_pose |-> [pitch |-> data.head_pitch, yaw |-> data.head_yaw, roll |-> data.head_roll],
     face_landmarks |-> "null",
     is_focused |-> data.is_focused]

R_Alert(type, severity, ts) == [type |-> type, severity |-> severity, timestamp |-> ts]

R_onTrackingData(s, data) ==
    LET s1 == Emit(s, "eye_tracking_data", R_transform(data))
        s2 == Emit(s1, "focus_score_update", [score |-> data.attention_score])
        s3 == IF data.attention_score < 60 * Scale
              THEN Emit(s2, "attention_alert", R_Alert("low_attention", "warning", data.timestamp))
              ELSE s2
        s4 == IF data.distraction_type # "none"
              THEN Emit(s3, "attention_alert", R_Alert("distraction", "info", data.timestamp))
              ELSE s3
    IN IF data.eye_strain_level > 20 * Scale
       THEN Emit(s4, "attention_alert", R_Alert("eye_strain", "warning", data.timestamp))
       ELSE s4

\* 'tracking_started' | 'tracking_stopped' | 'tracking_paused' | 'tracking_resumed'
R_onTrackingStatus(s, status) == Emit(s, "tracking_status", [status |-> status])

R_startTracking(s, sid) ==
    IF s.cur = 0 \/ ~s.conn
    THEN Emit(s, "connection_error", [error |-> "Not connected to server"])
    ELSE Send(s, "start_tracking", sid, "token")

\* stopTracking | pauseTracking | resumeTracking
R_control(s, msg, sid) ==
    IF s.cur = 0 \/ ~s.conn THEN s ELSE Send(s, msg, sid, "stored token")

----------------------------------------------------------------------------
(* WebSocketService: tracking *)

\* the handlers that publish a server event under its own name
W_onForward(s, ev, data) == Emit(s, ev, data)

\* startTracking | stopTracking | pauseTracking | resumeTracking
W_control(s, msg, sid) ==
    IF s.cur # 0 /\ s.socks[s.cur] = "connected"
    THEN Send(s, msg, sid, IF msg = "start_tracking" THEN "token" ELSE "none")
    ELSE s

----------------------------------------------------------------------------
(* MockWebSocketService *)

\* the constructor's setTimeout(..., 1000) and a setInterval(..., 1000)
M_ConnectTimer == [kind |-> "Mconnect", att |-> 0, id |-> 0, delay |-> 1000, rem |-> 1000 \div reconnectDelay]
\* an interval of 2000 ms in place of 1000 ms
M_Tick_slow(id) == [kind |-> "Mtick", att |-> 0, id |-> id, delay |-> 2000, rem |-> 2000 \div reconnectDelay]

M_Tick(id) == [kind |-> "Mtick", att |-> 0, id |-> id, delay |-> 1000, rem |-> 1000 \div reconnectDelay]

\* the constructor's timeout callback
M_onConnectTimer(s) ==
    Emit([s EXCEPT !.conn = TRUE], "connection_status", [connected |-> TRUE])

\* this.focusSimulationInterval = setInterval(...)
M_setInterval(s) ==
    [s EXCEPT !.fsi = s.nextInterval,
              !.nextInterval = @ + 1,
              !.timers = Append(@, M_Tick(s.nextInterval))]

\* if (this.focusSimulationInterval) { clearInterval(...); ... = null }
M_clearInterval(s) ==
    IF s.fsi # 0
    THEN [s EXCEPT !.timers = SelectSeq(@, LAMBDA tm : ~(tm.kind = "Mtick" /\ tm.id = s.fsi)),
                   !.fsi = 0]
    ELSE s

M_startTracking(s, sid) ==
    M_setInterval(Emit([s EXCEPT !.sessionActive = TRUE], "session_started", [session_id |-> sid]))

M_stopTracking(s, sid) ==
    Emit(M_clearInterval([s EXCEPT !.sessionActive = FALSE]), "session_ended", [session_id |-> sid])

M_pauseTracking(s, sid) ==
    Emit(M_clearInterval(s), "session_paused", [session_id |-> sid])

M_resumeTracking(s, sid) ==
    Emit(IF s.sessionActive THEN M_setInterval(s) ELSE s, "session_resumed", [session_id |-> sid])

M_disconnect(s) == M_clearInterval([s EXCEPT !.conn = FALSE])

\* One tick's draws g: the three waves sin(timestamp / period) and the value
\* of each Math.random() call, all in 1 / Scale.
M_mockData(ts, g) ==
    LET baseAttention == 75 * Scale + (g.sinA * 20)
        noise == (g.rN - Scale \div 2) * 10
        attention_score == Clamp(0, Scale, (baseAttention + noise) \div 100)
        eyeStrainBase == 15 * Scale + (g.sinE * 10)
        eye_strain_level == Clamp(0, 50 * Scale, eyeStrainBase + (g.rE - Scale \div 2) * 5)
        postureBase == 85 * Scale + (g.sinP * 10)
        posture_score == Clamp(60 * Scale, 100 * Scale, postureBase + (g.rP - Scale \div 2) * 5)
    IN [timestamp |-> ts,
        attention_score |-> attention_score,
        eye_strain_level |-> eye_strain_level,
        posture_score |-> posture_score,
        blink_rate |-> g.rB * 5 + 15 * Scale,
        gaze_position |-> [x |-> Scale \div 2 + ((g.rX - Scale \div 2) * 3) \div 10,
                           y |-> Scale \div 2 + ((g.rY - Scale \div 2) * 3) \div 10],
        focus_zones |-> [screen_center |-> attention_score > (7 * Scale) \div 10,
                         peripheral |-> attention_score < (5 * Scale) \div 10],
        session_active |-> TRUE]

M_Alert(type, severity, ts) == [type |-> type, severity |-> severity, timestamp |-> ts, id |-> ts]

\* Math.round(attention_score * 100)
M_score(attention_score) == ((attention_score * 100 + Scale \div 2) \div Scale) * Scale

M_generateMockFocusData(s, ts, g) ==
    IF ~s.sessionActive THEN s
    ELSE
    LET d == M_mockData(ts, g)
        s1 == Emit(s, "eye_tracking_data", d)
        s2 == Emit(s1, "focus_score_update", [score |-> M_score(d.attention_score)])
        s3 == IF d.attention_score < (4 * Scale) \div 10 /\ g.ra1 < (15 * Scale) \div 100
              THEN Emit(s2, "attention_alert", M_Alert("low_attention", "warning", ts))
              ELSE s2
        s4 == IF d.eye_strain_level > 30 * Scale /\ g.ra2 < (10 * Scale) \div 100
              THEN Emit(s3, "attention_alert", M_Alert("eye_strain", "error", ts))
              ELSE s3
    IN IF d.posture_score < 70 * Scale /\ g.ra3 < (8 * Scale) \div 100
       THEN Emit(s4, "attention_alert", M_Alert("posture", "warning", ts))
       ELSE s4

----------------------------------------------------------------------------
Step(op, arg) == [op |-> op, arg |-> arg, cb |-> "", ok |-> TRUE]

(* Initial states: the state after the singleton's constructor ran and the *)
(* WebSocketProvider registered one callback per event.                    *)

\* nothing published, no session, no alert yet
InitHist ==
    /\ lastStatus = "none"
    /\ escaped = FALSE
    /\ stopMark = 0
    /\ activeSid = ""
    /\ startedAt = 0
    /\ frameLog = <<>>
    /\ alerts = <<>>
    /\ nAlerts = 0
    /\ clearedAt = 0
    /\ generation = IF listeners["attention_alert"] = <<>> THEN 0 ELSE 1
    /\ mounted = (generation = 1)

InitCommon ==
    /\ socks = <<"connecting">>
    /\ cur = 1
    /\ reconnectAttempts = 0
    /\ isConnected = FALSE
    /\ timers = <<>>
    /\ listeners = [e \in Events |-> <<"cbA">>]
    /\ emitted = <<>>
    /\ calls = <<>>
    /\ sent = <<>>
    /\ sessionActive = FALSE
    /\ focusSimulationInterval = 0
    /\ nextInterval = 1
    /\ now = 0
    /\ last = Step("new", "")
    /\ phase = "Idle"
    /\ prevListeners = listeners
    /\ removed = {}
    /\ recentFrames = <<>>
    /\ nAttempts = 1
    /\ nConnects = 0
    /\ delays = <<>>
    /\ nMaxEmits = 0
    /\ userCalled = FALSE
    /\ localDisc = FALSE
    /\ InitHist

InitW == svc = "W" /\ InitCommon
InitR == svc = "R" /\ InitCommon

----------------------------------------------------------------------------
(* Transport events *)

DropReasons == {"io server disconnect", "transport close"}

\* RealWebSocketService makes a socket per attempt, so MaxSockets bounds its
\* 'connect' events; WebSocketService reuses its socket, so MaxConnects does
ConnectsAllowed == IF svc = "R" THEN MaxSockets ELSE MaxConnects

SockConnect(i) ==
    /\ socks[i] = "connecting"
    /\ nConnects < ConnectsAllowed
    /\ Commit(OnConnect([St EXCEPT !.socks[i] = "connected", !.nConnects = @ + 1,
                                   !.delays = <<>>]))
    /\ last' = Step("connect", "")
    /\ UNCHANGED <<svc, sessVars, sessHist, ctxVars, busHist, connHist, recentFrames>>

SockConnectError(i) ==
    /\ socks[i] = "connecting"
    /\ Len(timers) < MaxTimers
    /\ Commit(OnConnectError([St EXCEPT !.socks[i] = "closed"]))
    /\ last' = Step("connect_error", "")
    /\ UNCHANGED <<svc, sessVars, sessHist, ctxVars, busHist, connHist, recentFrames>>

SockDisconnect(i, reason) ==
    /\ socks[i] = "connected"
    /\ Len(timers) < MaxTimers
    /\ Commit(OnDisconnect([St EXCEPT !.socks[i] = "closed"], reason))
    /\ last' = Step("disconnect_event", reason)
    /\ UNCHANGED <<svc, sessVars, sessHist, ctxVars, busHist, connHist, recentFrames>>

\* The transport is lost and socket.io, created without reconnection: false,
\* starts to reconnect the socket by itself: 'disconnect' with reason
\* "transport close", and the socket is "reopening".
SockLose(i) ==
    /\ socks[i] = "connected"
    /\ Len(timers) < MaxTimers
    /\ Commit(OnDisconnect([St EXCEPT !.socks[i] = "reopening"], "transport close"))
    /\ last' = Step("disconnect_event", "transport close")
    /\ UNCHANGED <<svc, sessVars, sessHist, ctxVars, busHist, connHist, recentFrames>>

\* socket.io's own reconnection succeeded: 'connect' on the same socket
SockReopened(i) ==
    /\ socks[i] = "reopening"
    /\ Commit(OnConnect([St EXCEPT !.socks[i] = "connected", !.nConnects = @ + 1,
                                   !.delays = <<>>]))
    /\ last' = Step("connect", "reopened")
    /\ UNCHANGED <<svc, sessVars, sessHist, ctxVars, busHist, connHist, recentFrames>>

----------------------------------------------------------------------------
(* Timers *)

Due(k) == timers[k].rem = 0 /\ \A j \in 1..(k - 1) : timers[j].rem # 0

RemoveAt(seq, k) == [j \in 1..(Len(seq) - 1) |-> IF j < k THEN seq[j] ELSE seq[j + 1]]

\* time passes, up to the next deadline
AdvanceTo(limit) ==
    /\ timers # <<>>
    /\ \A k \in 1..Len(timers) : timers[k].rem > 0
    /\ svc = "M" => now < limit
    /\ timers' = [k \in 1..Len(timers) |-> [timers[k] EXCEPT !.rem = @ - 1]]
    /\ emitted' = <<>> /\ calls' = <<>> /\ sent' = <<>>
    /\ last' = Step("advance", "")
    /\ now' = IF svc = "M" THEN now + 1 ELSE now
    /\ escaped' = FALSE
    /\ UNCHANGED <<lastStatus, sessHist, ctxVars>>
    /\ UNCHANGED <<svc, socks, cur, reconnectAttempts, isConnected, listeners,
                   sessionActive, focusSimulationInterval, nextInterval, phase,
                   busHist, recentFrames, nAttempts, nConnects, delays, nMaxEmits, connHist>>

Advance == AdvanceTo(MaxNow)

FireTimer(k) ==
    /\ k \in 1..Len(timers)
    /\ Due(k)
    /\ timers[k].kind \in {"W", "R"}
    /\ timers[k].kind = "R" => Len(socks) < MaxSockets
    /\ LET s0 == [St EXCEPT !.timers = RemoveAt(timers, k)]
       IN Commit(IF timers[k].kind = "W" THEN W_retry(s0) ELSE R_retry(s0))
    /\ last' = Step("timer", timers[k].kind)
    /\ UNCHANGED <<svc, sessVars, sessHist, ctxVars, busHist, connHist, recentFrames>>

----------------------------------------------------------------------------
(* Calls of the consumer *)

Disconnect ==
    /\ Len(timers) < MaxTimers
    /\ Commit(CASE svc = "W" -> W_disconnect(St)
                [] svc = "R" -> R_disconnect(St)
                [] svc = "M" -> M_disconnect(St))
    /\ last' = Step("disconnect", "")
    /\ userCalled' = TRUE
    /\ localDisc' = TRUE
    /\ UNCHANGED <<svc, now, phase, sessHist, ctxVars, busHist, recentFrames>>

Reconnect ==
    /\ svc = "W"
    /\ Len(socks) < MaxSockets
    /\ Len(timers) < MaxTimers
    /\ Commit([W_reconnect(St) EXCEPT !.delays = <<>>, !.nMaxEmits = 0])
    /\ last' = Step("reconnect", "")
    /\ userCalled' = TRUE
    /\ localDisc' = FALSE
    /\ UNCHANGED <<svc, now, phase, sessHist, ctxVars, busHist, recentFrames>>

----------------------------------------------------------------------------
(* The session's status by the calls made so far (the state machine the    *)
(* session controller is specified to follow); it decides which calls are  *)
(* valid and is no state of the services.                                  *)

PhaseOk(op, ph) ==
    CASE op = "startTracking" -> TRUE
      [] op = "pauseTracking" -> ph = "Tracking"
      [] op = "resumeTracking" -> ph = "Paused"
      [] op = "stopTracking" -> ph \in {"Tracking", "Paused"}

PhaseNext(op, ph) ==
    IF ~PhaseOk(op, ph) THEN ph
    ELSE CASE op = "startTracking" -> "Tracking"
           [] op = "pauseTracking" -> "Paused"
           [] op = "resumeTracking" -> "Tracking"
           [] op = "stopTracking" -> "Stopped"

\* the session that is Tracking or Paused after the call
SidNext(op, sid, ph, active) ==
    CASE op = "startTracking" -> sid
      [] op = "stopTracking" /\ PhaseOk(op, ph) -> ""
      [] OTHER -> active

SessionStep(op, sid) == [op |-> op, arg |-> sid, cb |-> "", ok |-> PhaseOk(op, phase)]

ControlMsg(op) ==
    CASE op = "startTracking" -> "start_tracking"
      [] op = "pauseTracking" -> "pause_tracking"
      [] op = "resumeTracking" -> "resume_tracking"
      [] op = "stopTracking" -> "stop_tracking"

----------------------------------------------------------------------------
(* Frames of the backend: the values a 'tracking_data' message may carry   *)

FrameTimes == {0, 1000, 3000}
AttentionVals == {59 * Scale, (852 * Scale) \div 10}
StrainVals == {20 * Scale, 21 * Scale}
GazeVals == {(23 * Scale) \div 100, (0 - 3 * Scale) \div 2}
PostureVals == {65 * Scale, 70 * Scale}
\* "null" stands for the null the backend sends when nothing distracts
DistractionVals == {"none", "phone", "null"}

RawFrame(ts, att, strain, posture, gx, dist) ==
    [session_id |-> "s1", timestamp |-> ts, attention_score |-> att,
     focus_level |-> "high", distraction_type |-> dist, fatigue_level |-> "low",
     eye_strain_level |-> strain, posture_score |-> posture,
     gaze_direction_x |-> gx, gaze_direction_y |-> (0 - 15 * Scale) \div 100,
     left_eye_ratio |-> (3 * Scale) \div 10, right_eye_ratio |-> (3 * Scale) \div 10,
     blink_detected |-> FALSE, head_pitch |-> 2 * Scale, head_yaw |-> 0 - 2 * Scale,
     head_roll |-> 0, is_focused |-> TRUE]

\* how many of these fields differ from the frame the backend documents
\* (attention 85.2, gaze x 0.23) with a posture at the threshold and no distraction
Deviations(att, posture, gx, dist) ==
    (IF att = (852 * Scale) \div 10 THEN 0 ELSE 1) + (IF posture = 70 * Scale THEN 0 ELSE 1)
    + (IF gx = (23 * Scale) \div 100 THEN 0 ELSE 1) + (IF dist = "none" THEN 0 ELSE 1)

\* every timestamp and eye strain, with at most one other field off the documented frame
RawFrames ==
    {RawFrame(q[1], q[2], q[3], q[4], q[5], q[6]) :
        q \in {r \in FrameTimes \X AttentionVals \X StrainVals \X PostureVals
                                \X GazeVals \X DistractionVals :
                  Deviations(r[2], r[4], r[5], r[6]) <= 1}}

AlertsOf(em, type) ==
    Len(SelectSeq(em, LAMBDA m : m.event = "attention_alert" /\ m.data.type = type))

\* what the history keeps of a frame
FrameNote(data, em) ==
    [timestamp |-> data.timestamp, eye_strain_level |-> data.eye_strain_level,
     strainAlerts |-> AlertsOf(em, "eye_strain")]

Keep2(seq, x) == IF Len(seq) < 2 THEN Append(seq, x) ELSE <<seq[2], x>>

SockTrackingData(i, data) ==
    /\ svc = "R"
    /\ socks[i] = "connected"
    /\ recentFrames # <<>> => data.timestamp >= recentFrames[Len(recentFrames)].timestamp
    /\ LET s == R_onTrackingData(St, data)
       IN /\ Commit(s)
          /\ recentFrames' = Keep2(recentFrames, FrameNote(data, s.emitted))
    /\ last' = Step("tracking_data", "")
    /\ UNCHANGED <<svc, sessVars, sessHist, ctxVars, busHist, connHist>>

TrackingStatuses == {"started", "stopped", "paused", "resumed"}

SockTrackingStatus(i, status) ==
    /\ svc = "R"
    /\ socks[i] = "connected"
    /\ Commit(R_onTrackingStatus(St, status))
    /\ last' = Step("tracking_status", status)
    /\ UNCHANGED <<svc, sessVars, sessHist, ctxVars, busHist, connHist, recentFrames>>

W_Forwarded == {"eye_tracking_data", "attention_alert", "focus_score_update",
                "session_started", "session_paused", "session_resumed", "session_ended"}

W_Payloads == {NoData, R_transform(RawFrame(0, (852 * Scale) \div 10, 21 * Scale, 70 * Scale, (23 * Scale) \div 100, "none"))}

SockForward(i, ev, data) ==
    /\ svc = "W"
    /\ socks[i] = "connected"
    /\ Commit(W_onForward(St, ev, data))
    /\ last' = Step("forward", ev)
    /\ UNCHANGED <<svc, sessVars, sessHist, ctxVars, busHist, connHist, recentFrames>>

\* startTracking | stopTracking | pauseTracking | resumeTracking of R and W
TransportConnected == IF svc = "W" THEN cur # 0 /\ socks[cur] = "connected"
                                   ELSE cur # 0 /\ isConnected

TrackingCall(op, sid) ==
    /\ svc \in {"R", "W"}
    /\ Commit(IF svc = "W" THEN W_control(St, ControlMsg(op), sid)
              ELSE IF op = "startTracking" THEN R_startTracking(St, sid)
              ELSE R_control(St, ControlMsg(op), sid))
    /\ last' = SessionStep(op, sid)
    /\ phase' = IF TransportConnected THEN PhaseNext(op, phase) ELSE phase
    /\ activeSid' = IF TransportConnected THEN SidNext(op, sid, phase, activeSid) ELSE activeSid
    /\ UNCHANGED <<stopMark, startedAt, frameLog>>
    /\ UNCHANGED <<svc, now, ctxVars, busHist, connHist, recentFrames>>

SessionOps == {"startTracking", "pauseTracking", "resumeTracking", "stopTracking"}

----------------------------------------------------------------------------
(* MockWebSocketService: steps *)

InitM ==
    /\ svc = "M"
    /\ socks = <<>>
    /\ cur = 0
    /\ reconnectAttempts = 0
    /\ isConnected = FALSE
    /\ timers = <<M_ConnectTimer>>
    /\ listeners = [e \in Events |-> <<"cbA">>]
    /\ emitted = <<>>
    /\ calls = <<>>
    /\ sent = <<>>
    /\ sessionActive = FALSE
    /\ focusSimulationInterval = 0
    /\ nextInterval = 1
    /\ now = 0
    /\ last = Step("new", "")
    /\ phase = "Idle"
    /\ prevListeners = listeners
    /\ removed = {}
    /\ recentFrames = <<>>
    /\ nAttempts = 0
    /\ nConnects = 0
    /\ delays = <<>>
    /\ nMaxEmits = 0
    /\ userCalled = FALSE
    /\ localDisc = FALSE
    /\ InitHist

SinVals == {0 - Scale, Scale}
RandVals == {0, Scale - 1}

\* the draws of one tick: each wave at one of its extremes, the Math.random()
\* calls that shape the signals all low or all high, and so those that gate alerts
Draws ==
    {[sinA |-> a, sinE |-> e, sinP |-> p, rN |-> r, rE |-> r, rP |-> r, rB |-> r,
      rX |-> r, rY |-> r, ra1 |-> ra, ra2 |-> ra, ra3 |-> ra] :
        a \in SinVals, e \in SinVals, p \in SinVals, r \in RandVals, ra \in RandVals}

MockConnect(k) ==
    /\ k \in 1..Len(timers)
    /\ Due(k)
    /\ timers[k].kind = "Mconnect"
    /\ Commit(M_onConnectTimer([St EXCEPT !.timers = RemoveAt(timers, k)]))
    /\ last' = Step("timer", "Mconnect")
    /\ UNCHANGED <<svc, sessVars, sessHist, ctxVars, busHist, connHist, recentFrames>>

\* a tick of a live interval: the callback runs and the interval is due again a period later
MockTick(k, g) ==
    /\ k \in 1..Len(timers)
    /\ Due(k)
    /\ timers[k].kind = "Mtick"
    /\ Commit(M_generateMockFocusData(
                 [St EXCEPT !.timers = Append(RemoveAt(timers, k), M_Tick(timers[k].id))],
                 now * reconnectDelay, g))
    /\ last' = Step("tick", "")
    /\ UNCHANGED <<svc, sessVars, sessHist, ctxVars, busHist, connHist, recentFrames>>

MockCall(op, sid) ==
    /\ svc = "M"
    /\ op \in {"startTracking", "resumeTracking"} =>
          nextInterval <= MaxIntervals /\ Len(timers) < MaxTimers
    /\ Commit(CASE op = "startTracking" -> M_startTracking(St, sid)
                [] op = "stopTracking" -> M_stopTracking(St, sid)
                [] op = "pauseTracking" -> M_pauseTracking(St, sid)
                [] op = "resumeTracking" -> M_resumeTracking(St, sid))
    /\ last' = SessionStep(op, sid)
    /\ phase' = PhaseNext(op, phase)
    /\ activeSid' = SidNext(op, sid, phase, activeSid)
    /\ stopMark' = IF op = "stopTracking" THEN nextInterval ELSE stopMark
    /\ UNCHANGED <<startedAt, frameLog>>
    /\ UNCHANGED <<svc, now, ctxVars, busHist, connHist, recentFrames>>

----------------------------------------------------------------------------
(* Event bus: steps.  The three classes carry the same on/off/emit; emit   *)
(* is private and runs whenever a handler publishes.                       *)

BusEvents == {"eye_tracking_data", "attention_alert"}

BusStep(op, ev, cb) == [op |-> op, arg |-> ev, cb |-> cb, ok |-> TRUE]

InitBus ==
    /\ svc \in {"R", "W", "M"}
    /\ socks = IF svc = "M" THEN <<>> ELSE <<"connecting">>
    /\ cur = IF svc = "M" THEN 0 ELSE 1
    /\ reconnectAttempts = 0
    /\ isConnected = FALSE
    /\ timers = IF svc = "M" THEN <<M_ConnectTimer>> ELSE <<>>
    /\ listeners = [e \in Events |-> <<>>]
    /\ emitted = <<>>
    /\ calls = <<>>
    /\ sent = <<>>
    /\ sessionActive = FALSE
    /\ focusSimulationInterval = 0
    /\ nextInterval = 1
    /\ now = 0
    /\ last = Step("new", "")
    /\ phase = "Idle"
    /\ prevListeners = listeners
    /\ removed = {}
    /\ recentFrames = <<>>
    /\ nAttempts = IF svc = "M" THEN 0 ELSE 1
    /\ nConnects = 0
    /\ delays = <<>>
    /\ nMaxEmits = 0
    /\ userCalled = FALSE
    /\ localDisc = FALSE
    /\ InitHist

BusOn(ev, cb) ==
    /\ Len(listeners[ev]) < MaxRegs
    /\ Commit(On(St, ev, cb))
    /\ last' = BusStep("on", ev, cb)
    /\ prevListeners' = listeners
    /\ removed' = removed \ {<<ev, cb>>}
    /\ UNCHANGED <<svc, sessVars, sessHist, ctxVars, connHist, recentFrames>>

BusOff(ev, cb) ==
    /\ Commit(Off(St, ev, cb))
    /\ last' = BusStep("off", ev, cb)
    /\ prevListeners' = listeners
    /\ removed' = removed \cup {<<ev, cb>>}
    /\ UNCHANGED <<svc, sessVars, sessHist, ctxVars, connHist, recentFrames>>

BusOffEvent(ev) ==
    /\ svc \in {"W", "M"}
    /\ Commit(OffEvent(St, ev))
    /\ last' = BusStep("off_event", ev, "")
    /\ prevListeners' = listeners
    /\ removed' = removed \cup {<<ev, cb>> : cb \in Callbacks}
    /\ UNCHANGED <<svc, sessVars, sessHist, ctxVars, connHist, recentFrames>>

BusEmit(ev) ==
    /\ Commit(Emit(St, ev, NoData))
    /\ last' = BusStep("emit", ev, "")
    /\ UNCHANGED <<svc, sessVars, sessHist, ctxVars, busHist, connHist, recentFrames>>

\* an emit during which the callback cb throws
BusEmitThrowing(ev, cb) ==
    /\ \E i \in 1..Len(listeners[ev]) : listeners[ev][i] = cb
    /\ Commit(EmitThrowing(St, ev, NoData, {cb}))
    /\ last' = BusStep("emit_throw", ev, cb)
    /\ UNCHANGED <<svc, sessVars, sessHist, ctxVars, busHist, connHist, recentFrames>>

NextBus ==
    \/ \E ev \in BusEvents, cb \in Callbacks : BusOn(ev, cb)
    \/ \E ev \in BusEvents, cb \in Callbacks : BusOff(ev, cb)
    \/ \E ev \in BusEvents : BusOffEvent(ev)
    \/ \E ev \in BusEvents : BusEmit(ev)

SpecBus == InitBus /\ [][NextBus]_vars

\* the event bus with callbacks that may throw
NextBusT ==
    \/ NextBus
    \/ \E ev \in BusEvents, cb \in Callbacks : BusEmitThrowing(ev, cb)

SpecBusT == InitBus /\ [][NextBusT]_vars

\* the callback that is not cb
Other(cb) == CHOOSE c \in Callbacks : c # cb

\* an emit during which the callback cb, when invoked, calls off(ev, target)
BusEmitOff(ev, cb, target) ==
    /\ \E i \in 1..Len(listeners[ev]) : listeners[ev][i] = cb
    /\ Commit(EmitDuring(St, ev, NoData, [c \in Callbacks |-> IF c = cb THEN target ELSE ""]))
    /\ last' = BusStep(IF target = cb THEN "emit_off_self" ELSE "emit_off_other", ev, cb)
    /\ prevListeners' = listeners
    /\ removed' = removed \cup {<<ev, target>>}
    /\ UNCHANGED <<svc, sessVars, sessHist, ctxVars, connHist, recentFrames>>

\* the event bus with callbacks that unsubscribe during an emit
NextBusO ==
    \/ NextBus
    \/ \E ev \in BusEvents, cb \in Callbacks : BusEmitOff(ev, cb, cb)
    \/ \E ev \in BusEvents, cb \in Callbacks : BusEmitOff(ev, cb, Other(cb))

SpecBusO == InitBus /\ [][NextBusO]_vars

----------------------------------------------------------------------------

NextConn ==
    \/ \E i \in 1..Len(socks) : SockConnect(i)
    \/ \E i \in 1..Len(socks) : SockConnectError(i)
    \/ \E i \in 1..Len(socks), reason \in DropReasons : SockDisconnect(i, reason)
    \/ \E k \in 1..Len(timers) : FireTimer(k)
    \/ Disconnect

\* WebSocketService: the connection's life, with time
NextW ==
    \/ NextConn
    \/ Advance
    \/ Reconnect

\* WebSocketService: tracking calls and forwarded events, while no time passes
NextWS ==
    \/ \E i \in 1..Len(socks) : SockConnect(i)
    \/ \E i \in 1..Len(socks) : SockConnectError(i)
    \/ \E i \in 1..Len(socks), reason \in DropReasons : SockDisconnect(i, reason)
    \/ Disconnect
    \/ Reconnect
    \/ \E i \in 1..Len(socks), ev \in W_Forwarded, data \in W_Payloads : SockForward(i, ev, data)
    \/ \E op \in SessionOps, sid \in Sessions : TrackingCall(op, sid)

NextR ==
    \/ NextConn
    \/ \E i \in 1..Len(socks), data \in RawFrames : SockTrackingData(i, data)
    \/ \E i \in 1..Len(socks), status \in TrackingStatuses : SockTrackingStatus(i, status)
    \/ \E op \in SessionOps, sid \in Sessions : TrackingCall(op, sid)

SpecW == InitW /\ [][NextW]_vars
SpecWS == InitW /\ [][NextWS]_vars
\* MockWebSocketService
NextM ==
    \/ \E k \in 1..Len(timers) : MockConnect(k)
    \/ \E k \in 1..Len(timers), g \in Draws : MockTick(k, g)
    \/ \E op \in SessionOps, sid \in Sessions : MockCall(op, sid)
    \/ Advance
    \/ Disconnect

SpecR == InitR /\ [][NextR]_vars
SpecM == InitM /\ [][NextM]_vars

\* MockWebSocketService timed: one startTracking on a new instance, then the
\* interval's ticks until the clock reaches MaxTimedNow, or until stopTracking

TimedCall(op, sid) ==
    /\ svc = "M"
    /\ Commit(IF op = "startTracking" THEN M_startTracking(St, sid) ELSE M_stopTracking(St, sid))
    /\ last' = SessionStep(op, sid)
    /\ phase' = PhaseNext(op, phase)
    /\ activeSid' = SidNext(op, sid, phase, activeSid)
    /\ startedAt' = IF op = "startTracking" THEN now ELSE startedAt
    /\ frameLog' = IF op = "startTracking" THEN <<>> ELSE frameLog
    /\ UNCHANGED <<svc, now, stopMark, ctxVars, busHist, connHist, recentFrames>>

TimedTick(k, g) ==
    /\ k \in 1..Len(timers)
    /\ Due(k)
    /\ timers[k].kind = "Mtick"
    /\ LET s == M_generateMockFocusData(
                    [St EXCEPT !.timers = Append(RemoveAt(timers, k), M_Tick(timers[k].id))],
                    now * reconnectDelay, g)
           frames == SelectSeq(s.emitted, LAMBDA m : m.event = "eye_tracking_data")
       IN /\ Commit(s)
          /\ frameLog' = frameLog \o [i \in 1..Len(frames) |-> frames[i].data.timestamp]
    /\ last' = Step("tick", "")
    /\ UNCHANGED <<svc, sessVars, stopMark, activeSid, startedAt, ctxVars, busHist, connHist,
                   recentFrames>>

NextMT ==
    \/ \E k \in 1..Len(timers) : MockConnect(k)
    \/ \E k \in 1..Len(timers), g \in Draws : TimedTick(k, g)
    \/ \E sid \in Sessions : phase = "Idle" /\ TimedCall("startTracking", sid)
    \/ phase = "Tracking" /\ TimedCall("stopTracking", activeSid)
    \/ AdvanceTo(MaxTimedNow)

SpecMT == InitM /\ [][NextMT]_vars

\* both connection managers
NextConnAll ==
    \/ svc = "W" /\ NextW
    \/ svc = "R" /\ NextR

SpecConn == (InitW \/ InitR) /\ [][NextConnAll]_vars

\* RealWebSocketService with socket.io reconnecting a lost socket by itself
NextRA ==
    \/ NextConn
    \/ \E i \in 1..Len(socks) : SockLose(i)
    \/ \E i \in 1..Len(socks) : SockReopened(i)

SpecRA == InitR /\ [][NextRA]_vars

\* RealWebSocketService with socket.io reconnecting lost sockets, over many
\* sockets: every retry makes a socket and none is ever closed.  The sockets
\* carry the same handlers, so of the sockets in one state the earliest acts.
\* The runs taken are those where the server drops connections while no
\* socket is still connecting (so the counter is 0 and the retry's delay,
\* reconnectDelay * 0, is 0 ms), and where socket.io reopens a socket, which
\* takes its reconnectionDelay, after the retries of 0 ms have run.
First(state, i) == socks[i] = state /\ \A j \in 1..(i - 1) : socks[j] # state

PoolConnect(i) ==
    /\ First("connecting", i)
    /\ Commit(OnConnect([St EXCEPT !.socks[i] = "connected", !.delays = <<>>]))
    /\ last' = Step("connect", "")
    /\ UNCHANGED <<svc, sessVars, sessHist, ctxVars, busHist, connHist, recentFrames>>

PoolLose(i) ==
    /\ First("connected", i)
    /\ \A j \in 1..Len(socks) : socks[j] # "connecting"
    /\ Len(timers) < MaxPoolTimers
    /\ Commit(OnDisconnect([St EXCEPT !.socks[i] = "reopening"], "transport close"))
    /\ last' = Step("disconnect_event", "transport close")
    /\ UNCHANGED <<svc, sessVars, sessHist, ctxVars, busHist, connHist, recentFrames>>

PoolReopened(i) ==
    /\ First("reopening", i)
    /\ timers = <<>>
    /\ Commit(OnConnect([St EXCEPT !.socks[i] = "connected", !.delays = <<>>]))
    /\ last' = Step("connect", "reopened")
    /\ UNCHANGED <<svc, sessVars, sessHist, ctxVars, busHist, connHist, recentFrames>>

PoolFireTimer(k) ==
    /\ k \in 1..Len(timers)
    /\ Due(k)
    /\ Len(socks) < MaxPoolSockets
    /\ Commit(R_retry([St EXCEPT !.timers = RemoveAt(timers, k)]))
    /\ last' = Step("timer", "R")
    /\ UNCHANGED <<svc, sessVars, sessHist, ctxVars, busHist, connHist, recentFrames>>

NextRP ==
    \/ \E i \in 1..Len(socks) : PoolConnect(i)
    \/ \E i \in 1..Len(socks) : PoolLose(i)
    \/ \E i \in 1..Len(socks) : PoolReopened(i)
    \/ \E k \in 1..Len(timers) : PoolFireTimer(k)

SpecRP == InitR /\ [][NextRP]_vars

----------------------------------------------------------------------------
(* WebSocketProvider: the callbacks it registers on attention_alert and    *)
(* tracking_status, and clearAlerts.  The service's emit invokes the       *)
(* callbacks; here they are invoked directly.                              *)

\* Array.prototype.slice(-n): the last n elements
SliceLast(seq, n) == IF Len(seq) <= n THEN seq ELSE SubSeq(seq, Len(seq) - n + 1, Len(seq))

\* without the slice: every earlier alert is kept
Ctx_onAttentionAlert_keepAll(prev, data, t) ==
    Append(prev, [type |-> data.type, severity |-> data.severity,
                  timestamp |-> data.timestamp, id |-> t])

\* prev => [...prev.slice(-9), {...data, id: Date.now(), timestamp: data.timestamp || ...}]
Ctx_onAttentionAlert(prev, data, t) ==
    Append(SliceLast(prev, RingKeep),
           [type |-> data.type, severity |-> data.severity,
            timestamp |-> data.timestamp, id |-> t])

\* if (data.status === 'started') setAttentionAlerts([])
Ctx_onTrackingStatus(prev, data) == IF data.status = "started" THEN <<>> ELSE prev

Ctx_clearAlerts(prev) == <<>>

\* the k-th alert the provider receives carries the timestamp k, for the
\* history to tell the alerts apart
AlertPayload(k) == R_Alert("eye_strain", "warning", k)

\* a step of the provider leaves the service alone
CtxKeep ==
    /\ emitted' = <<>> /\ calls' = <<>> /\ sent' = <<>>
    /\ escaped' = FALSE
    /\ UNCHANGED <<svc, socks, cur, reconnectAttempts, isConnected, timers, listeners,
                   sessionActive, focusSimulationInterval, nextInterval, phase,
                   busHist, recentFrames, nAttempts, nConnects, delays, nMaxEmits,
                   connHist, lastStatus, sessHist>>

CtxAlert ==
    /\ nAlerts < MaxAlerts
    /\ alerts' = Ctx_onAttentionAlert(alerts, AlertPayload(nAlerts + 1), now)
    /\ nAlerts' = nAlerts + 1
    /\ last' = Step("attention_alert", "")
    /\ UNCHANGED <<now, clearedAt, mountVars>>
    /\ CtxKeep

CtxTrackingStatus(status) ==
    /\ alerts' = Ctx_onTrackingStatus(alerts, [status |-> status])
    /\ clearedAt' = IF status = "started" THEN nAlerts ELSE clearedAt
    /\ last' = Step("tracking_status", status)
    /\ UNCHANGED <<now, nAlerts, mountVars>>
    /\ CtxKeep

CtxClearAlerts ==
    /\ alerts' = Ctx_clearAlerts(alerts)
    /\ clearedAt' = nAlerts
    /\ last' = Step("clearAlerts", "")
    /\ UNCHANGED <<now, nAlerts, mountVars>>
    /\ CtxKeep

\* the clock behind Date.now() moves on
CtxClock ==
    /\ now < MaxNow
    /\ now' = now + 1
    /\ last' = Step("clock", "")
    /\ UNCHANGED ctxVars
    /\ CtxKeep

NextCtx ==
    \/ CtxAlert
    \/ \E status \in TrackingStatuses : CtxTrackingStatus(status)
    \/ CtxClearAlerts
    \/ CtxClock

SpecCtx == InitR /\ [][NextCtx]_vars

\* The provider mounted, unmounted and mounted again over the one
\* RealWebSocketService instance the module exports.

\* the events the effect subscribes to
ProviderEvents == {"connection_status", "connection_error", "eye_tracking_data",
                   "focus_score_update", "attention_alert", "tracking_status", "error"}

\* the callbacks the effect of the n-th mount creates: one name per mount
ProviderCallbacks == <<"cbA", "cbB", "cbC", "cbD">>

\* the effect: realWebSocketService.on(event, callback) for each event
Ctx_effect(s, cb) ==
    [s EXCEPT !.listeners = [e \in Events |->
        IF e \in ProviderEvents THEN On(s, e, cb).listeners[e] ELSE s.listeners[e]]]

\* the effect's cleanup: return () => { }
Ctx_cleanup(s, cb) == s

ProviderMount ==
    /\ ~mounted
    /\ generation < MaxMounts
    /\ Commit(Ctx_effect(St, ProviderCallbacks[generation + 1]))
    /\ mounted' = TRUE
    /\ generation' = generation + 1
    /\ alerts' = <<>>
    /\ clearedAt' = nAlerts
    /\ last' = BusStep("mount", "", ProviderCallbacks[generation + 1])
    /\ prevListeners' = listeners
    /\ UNCHANGED <<svc, sessVars, sessHist, nAlerts, removed, connHist, recentFrames>>

ProviderUnmount ==
    /\ mounted
    /\ Commit(Ctx_cleanup(St, ProviderCallbacks[generation]))
    /\ mounted' = FALSE
    /\ last' = BusStep("unmount", "", ProviderCallbacks[generation])
    /\ prevListeners' = listeners
    /\ UNCHANGED <<svc, sessVars, sessHist, generation, alerts, nAlerts, clearedAt, removed,
                   connHist, recentFrames>>

NextMount ==
    \/ NextConn
    \/ ProviderMount
    \/ ProviderUnmount

SpecMount == InitR /\ [][NextMount]_vars

----------------------------------------------------------------------------
(* C1 *)

\* every connect attempt so far failed and the consumer called neither disconnect() nor reconnect()
AlwaysFailed == ~userCalled /\ nConnects = 0

\* no retry is pending and no attempt is in flight
Quiescent == timers = <<>> /\ \A i \in 1..Len(socks) : socks[i] # "connecting"

NonDecreasing(seq) == \A i \in 1..(Len(seq) - 1) : seq[i] <= seq[i + 1]

MaxReached == [event |-> "max_reconnect_attempts_reached", data |-> NoData]

----------------------------------------------------------------------------
(* C2 *)

\* the cooldown of the alert deriver, in ms (spec 4.4)
AlertCooldown == 2000

\* C2: of two consecutive tracking_data frames that both carry
\* eye_strain_level > 20 and lie less than the cooldown apart, exactly one
\* publishes an eye_strain attention_alert.
C2_OneAlertPerCooldown ==
    Len(recentFrames) = 2 =>
        LET a == recentFrames[1]
            b == recentFrames[2]
        IN (/\ a.eye_strain_level > 20 * Scale
            /\ b.eye_strain_level > 20 * Scale
            /\ b.timestamp - a.timestamp < AlertCooldown)
           => a.strainAlerts + b.strainAlerts = 1

----------------------------------------------------------------------------
(* C3 *)

\* C3: a pauseTracking, resumeTracking or stopTracking call that the session's
\* status does not allow publishes nothing, sends nothing and changes no state.
C3_InvalidCallIsNoOp ==
    [][(last'.op \in {"pauseTracking", "resumeTracking", "stopTracking"} /\ ~last'.ok) =>
          /\ emitted' = <<>>
          /\ sent' = <<>>
          /\ UNCHANGED <<socks, cur, reconnectAttempts, isConnected, timers, listeners,
                         sessionActive, focusSimulationInterval, phase>>]_vars

----------------------------------------------------------------------------
(* C4 *)

Range(seq) == {seq[i] : i \in 1..Len(seq)}

\* C4 as stated: a callback that off(event, callback) was called with is not
\* invoked by a later emit of the event (until on() registers it again).
C4_NeverAfterOff ==
    \A pair \in removed : <<pair[2], pair[1]>> \notin Range(calls)

\* off(event, callback) took away the earliest registration of the callback on
\* the event, and nothing else
OffRemovedEarliest ==
    LET p == prevListeners[last.arg]
        l == listeners[last.arg]
    IN /\ \A e \in Events \ {last.arg} : listeners[e] = prevListeners[e]
       /\ IF last.cb \notin Range(p) THEN l = p
          ELSE \E k \in 1..Len(p) :
                  /\ p[k] = last.cb
                  /\ \A j \in 1..(k - 1) : p[j] # last.cb
                  /\ Len(l) = Len(p) - 1
                  /\ \A j \in 1..Len(l) : l[j] = IF j < k THEN p[j] ELSE p[j + 1]

\* an emit invokes each registration on the event once, in order
EmitReachedAll ==
    /\ Len(calls) = Len(listeners[last.arg])
    /\ \A i \in 1..Len(calls) : calls[i] = <<listeners[last.arg][i], last.arg>>

\* C4 amended: off(event, callback) removes exactly one registration of the
\* callback, the earliest (none if there is none), and keeps every other
\* registration in order; a later emit invokes every registration left, so the
\* callback is invoked zero times only if it was registered at most once.
C4_OffRemovesOne ==
    /\ last.op = "off" => OffRemovedEarliest
    /\ last.op = "emit" => EmitReachedAll
    /\ last.op = "emit" =>
          \A pair \in removed :
              (pair[1] = last.arg /\ pair[2] \notin Range(listeners[last.arg])) =>
                  <<pair[2], pair[1]>> \notin Range(calls)

\* an emit after off(event, cbA) took one of two registrations of cbA away
C4_Witness ==
    /\ last.op = "emit"
    /\ <<last.arg, "cbA">> \in removed
    /\ calls = <<<<"cbA", last.arg>>>>

----------------------------------------------------------------------------
(* C5 *)

Published(ev) == SelectSeq(emitted, LAMBDA m : m.event = ev)

GazeOf(d) == IF "gaze" \in DOMAIN d THEN d.gaze ELSE d.gaze_position

InRange(lo, hi, v) == lo <= v /\ v <= hi

\* C5: every eye_tracking_data record published has its attention score in
\* [0,1], eye strain in [0,100], posture in [0,100] and gaze x, y in [-1,1].
C5_FrameRanges ==
    \A i \in 1..Len(Published("eye_tracking_data")) :
        LET d == Published("eye_tracking_data")[i].data
        IN /\ InRange(0, Scale, d.attention_score)
           /\ InRange(0, 100 * Scale, d.eye_strain_level)
           /\ InRange(0, 100 * Scale, d.posture_score)
           /\ InRange(0 - Scale, Scale, GazeOf(d).x)
           /\ InRange(0 - Scale, Scale, GazeOf(d).y)

----------------------------------------------------------------------------
(* C6 *)

\* C6: after disconnect() and until a connect or reconnect call, no connect
\* attempt is made and no socket is created.
C6_NoAttemptAfterDisconnect ==
    [][(localDisc /\ localDisc') =>
          (nAttempts' = nAttempts /\ Len(socks') = Len(socks))]_vars

----------------------------------------------------------------------------
(* C7 *)

IsDisconnectedStatus(m) == m.event = "connection_status" /\ ~m.data.connected

\* C7: disconnect() publishes connection_status {connected: false}; a second
\* call publishes nothing and changes nothing.
C7_DisconnectPublishes ==
    [][last'.op = "disconnect" =>
          IF ~localDisc
          THEN \E i \in 1..Len(emitted') : IsDisconnectedStatus(emitted'[i])
          ELSE /\ emitted' = <<>>
               /\ UNCHANGED <<socks, cur, reconnectAttempts, isConnected, timers,
                              sessionActive, focusSimulationInterval>>]_vars

----------------------------------------------------------------------------
(* C8 *)

Backoff == <<1000, 2000, 4000, 8000, 16000>>

\* C8: the retry that a transport-level disconnect schedules has the delay
\* baseDelay * 2^(attempt - 1) of its attempt: 1000, 2000, 4000, 8000, 16000 ms.
C8_ExponentialDelay ==
    (last.op = "disconnect_event" /\ timers # <<>>) =>
        LET tm == timers[Len(timers)]
        IN tm.delay = Backoff[tm.att]

----------------------------------------------------------------------------
(* C9 *)

ConnectedStatus == [event |-> "connection_status", data |-> [connected |-> TRUE]]

\* C9: right after a socket's 'connect' event the attempt counter is 0 and
\* connection_status {connected: true} was published; and the counter is
\* incremented before each retry's connect call: a pending retry of
\* WebSocketService stands for an attempt >= 1 already counted, and the retry
\* callback of RealWebSocketService increments the counter in the step that
\* makes its connect call.
C9_CounterResetAndIncrement ==
    /\ [](last.op = "connect" => (reconnectAttempts = 0 /\ emitted = <<ConnectedStatus>>))
    /\ [](\A k \in 1..Len(timers) : timers[k].kind = "W" => timers[k].att >= 1)
    /\ [][(last'.op = "timer" /\ svc = "R") =>
             (reconnectAttempts' = reconnectAttempts + 1 /\ nAttempts' = nAttempts + 1)]_vars
    /\ [][(last'.op = "connect_error" /\ svc = "W" /\ Len(timers') > Len(timers)) =>
             reconnectAttempts' = reconnectAttempts + 1]_vars

\* a 'connect' event that follows a failed attempt
C9_Witness ==
    /\ last.op = "connect"
    /\ nAttempts >= 2
    /\ reconnectAttempts = 0

----------------------------------------------------------------------------
(* C10 *)

\* C10: once max_reconnect_attempts_reached was published, and until
\* reconnect(), it is not published again, no retry is scheduled and no
\* connect attempt is made.
C10_TerminalOnce ==
    [][(nMaxEmits >= 1 /\ last'.op # "reconnect") =>
          /\ nMaxEmits' = nMaxEmits
          /\ nAttempts' = nAttempts
          /\ Len(timers') <= Len(timers)]_vars

----------------------------------------------------------------------------
(* C11 *)

\* the connected values of the connection_status events of one step, in order
StatusValues(em) ==
    LET st == SelectSeq(em, LAMBDA m : m.event = "connection_status")
    IN [i \in 1..Len(st) |-> IF st[i].data.connected THEN "true" ELSE "false"]

\* C11: no connection_status event carries the connected value of the
\* connection_status event published before it.
C11_NoRepeatedStatus ==
    [][LET v == StatusValues(emitted')
       IN \A i \in 1..Len(v) : v[i] # (IF i = 1 THEN lastStatus ELSE v[i - 1])]_vars

----------------------------------------------------------------------------
(* C12 *)

\* C12: startTracking called while the connection is not Connected sends no
\* control message, leaves the session as it is and reports an error: at the
\* least, an error event reaches the subscribers.
C12_StartNeedsConnection ==
    [][(last'.op = "startTracking" /\ ~TransportConnected) =>
          /\ sent' = <<>>
          /\ phase' = phase
          /\ \E i \in 1..Len(emitted') : emitted'[i].event = "connection_error"]_vars

----------------------------------------------------------------------------
(* C13 *)

\* the intervals that are live
LiveTicks(tms) == SelectSeq(tms, LAMBDA tm : tm.kind = "Mtick")

SessionEvent(ev, sid) == [event |-> ev, data |-> [session_id |-> sid]]

\* C13: startTracking(s2) called while another session s1 is Tracking or
\* Paused publishes session_ended of s1 before session_started of s2 and
\* leaves no tick timer but the one of s2.
C13_StopsPriorSession ==
    [][(/\ last'.op = "startTracking"
        /\ phase \in {"Tracking", "Paused"}
        /\ activeSid # last'.arg) =>
          /\ \E i \in 1..Len(emitted') : \E j \in (i + 1)..Len(emitted') :
                 /\ emitted'[i] = SessionEvent("session_ended", activeSid)
                 /\ emitted'[j] = SessionEvent("session_started", last'.arg)
          /\ Len(LiveTicks(timers')) <= 1]_vars

----------------------------------------------------------------------------
(* C14 *)

\* C14: while the session is Paused no tick publishes eye_tracking_data, and
\* resumeTracking on a Paused session leaves exactly one tick timer.
C14_NoFramesWhilePaused ==
    [][/\ (last'.op = "tick" /\ phase = "Paused") =>
             \A i \in 1..Len(emitted') : emitted'[i].event # "eye_tracking_data"
       /\ (last'.op = "resumeTracking" /\ phase = "Paused") =>
             Len(LiveTicks(timers')) = 1]_vars

----------------------------------------------------------------------------
(* C15 *)

\* the interval whose callback ran in a tick step: it is queued again, last
TickedInterval(tms) == tms[Len(tms)].id

\* C15: a tick of an interval created before the last stopTracking publishes
\* nothing, also after a later startTracking.
C15_StoppedTimersSilent ==
    [][(last'.op = "tick" /\ TickedInterval(timers') < stopMark) =>
          (emitted' = <<>> /\ calls' = <<>>)]_vars

----------------------------------------------------------------------------
(* C16 *)

\* attention below 0.6 of its scale: the backend's frames run to 100, the
\* synthetic ones to 1
AttentionLow(d) ==
    IF svc = "M" THEN d.attention_score * 10 < 6 * Scale ELSE d.attention_score < 60 * Scale

\* the normalized distraction type: "none" when the frame has none
DistractionOf(d) ==
    IF "distraction_type" \in DOMAIN d /\ d.distraction_type # "null"
    THEN d.distraction_type ELSE "none"

\* the alerts of one kind in em are: one of the given severity if due, else none
AlertIff(em, type, severity, due) ==
    /\ AlertsOf(em, type) = IF due THEN 1 ELSE 0
    /\ \A j \in 1..Len(em) :
          (em[j].event = "attention_alert" /\ em[j].data.type = type) =>
              em[j].data.severity = severity

\* C16: the alerts published with a frame are exactly low_attention (warning)
\* iff attention < 0.6, eye_strain (warning) iff eye strain > 20, posture
\* (warning) iff posture < 70, distraction (info) iff the distraction type is
\* not "none".
C16_AlertKinds ==
    \A i \in 1..Len(emitted) :
        emitted[i].event = "eye_tracking_data" =>
            LET d == emitted[i].data
            IN /\ AlertIff(emitted, "low_attention", "warning", AttentionLow(d))
               /\ AlertIff(emitted, "eye_strain", "warning", d.eye_strain_level > 20 * Scale)
               /\ AlertIff(emitted, "posture", "warning", d.posture_score < 70 * Scale)
               /\ AlertIff(emitted, "distraction", "info", DistractionOf(d) # "none")

----------------------------------------------------------------------------
(* C17 *)

\* C17: a frame whose distraction_type is null is published with
\* distraction_type "none" and without a distraction alert.
C17_NullIsNone ==
    last.op = "tracking_data" =>
        \A i \in 1..Len(emitted) :
            emitted[i].event = "eye_tracking_data" =>
                /\ emitted[i].data.distraction_type # "null"
                /\ AlertsOf(emitted, "distraction") > 0 =>
                       emitted[i].data.distraction_type # "none"

----------------------------------------------------------------------------
(* C18 *)

Min(a, b) == IF a < b THEN a ELSE b

\* C18: the alerts held are never more than 10, and they are the most recent
\* of the alerts received since alerts was last emptied, at most 10 of them,
\* in arrival order.
C18_RingHoldsLastTen ==
    /\ Len(alerts) <= RingKeep + 1
    /\ Len(alerts) = Min(RingKeep + 1, nAlerts - clearedAt)
    /\ \A i \in 1..Len(alerts) : alerts[i].timestamp = nAlerts - Len(alerts) + i

\* an alert arrived while 10 were held
C18_Witness ==
    /\ last.op = "attention_alert"
    /\ nAlerts - clearedAt > RingKeep + 1
    /\ Len(alerts) = RingKeep + 1

----------------------------------------------------------------------------
(* C19 *)

\* C19: of two alerts held, the later one has the larger id.
C19_IdsIncrease ==
    \A i \in 1..Len(alerts) : \A j \in (i + 1)..Len(alerts) : alerts[i].id < alerts[j].id

----------------------------------------------------------------------------
(* C20 *)

\* C20: when a callback throws during an emit, every callback registered on
\* the event is still invoked, in order, and no exception leaves emit.
C20_ThrowIsContained ==
    last.op = "emit_throw" =>
        /\ ~escaped
        /\ Len(calls) = Len(listeners[last.arg])
        /\ \A i \in 1..Len(calls) : calls[i] = <<listeners[last.arg][i], last.arg>>

----------------------------------------------------------------------------
(* C21 *)

\* a is b with some elements left out, the rest in b's order
RECURSIVE IsSubseq(_, _)
IsSubseq(a, b) ==
    IF a = <<>> THEN TRUE
    ELSE IF b = <<>> THEN FALSE
    ELSE IF Head(a) = Head(b) THEN IsSubseq(Tail(a), Tail(b))
    ELSE IsSubseq(a, Tail(b))

\* C21: the callbacks of one event are invoked in the order of their on()
\* calls: on() puts the new registration after every earlier one, off() keeps
\* the order of the registrations it leaves, and an emit goes through the
\* registrations from the earliest to the latest.
C21_RegistrationOrder ==
    /\ last.op = "on" =>
          listeners[last.arg] = Append(prevListeners[last.arg], last.cb)
    /\ last.op \in {"off", "off_event"} =>
          \A e \in Events : IsSubseq(listeners[e], prevListeners[e])
    /\ last.op = "emit" =>
          calls = [i \in 1..Len(listeners[last.arg]) |->
                      <<listeners[last.arg][i], last.arg>>]

\* an emit that invoked cbB before cbA, cbA's first registration having been
\* taken away by off() after cbB was registered
C21_Witness ==
    /\ last.op = "emit"
    /\ <<last.arg, "cbA">> \in removed
    /\ Len(calls) = 2
    /\ calls[1] = <<"cbB", last.arg>>
    /\ calls[2] = <<"cbA", last.arg>>

----------------------------------------------------------------------------
(* C22 *)

\* the events RealWebSocketService publishes for the server's
\* tracking_started | tracking_stopped | tracking_paused | tracking_resumed
R_LifecycleEvents ==
    {R_onTrackingStatus([St EXCEPT !.emitted = <<>>], status).emitted[1].event :
        status \in TrackingStatuses}

\* the fields of a frame RealWebSocketService publishes
R_FrameFields == DOMAIN R_transform(CHOOSE d \in RawFrames : TRUE)

\* C22: what MockWebSocketService publishes for startTracking, pauseTracking,
\* resumeTracking and stopTracking carries an event name RealWebSocketService
\* publishes for the same transition, and a frame it publishes has the fields
\* of a frame of RealWebSocketService.
C22_SameVocabulary ==
    \A i \in 1..Len(emitted) :
        /\ last.op \in SessionOps => emitted[i].event \in R_LifecycleEvents
        /\ emitted[i].event = "eye_tracking_data" =>
              DOMAIN emitted[i].data = R_FrameFields

----------------------------------------------------------------------------
(* C23 *)

\* C23: after one startTracking the generator publishes one eye_tracking_data
\* per second while tracking, so at least 9 within 10 seconds, and each frame's
\* timestamp is larger than the one before.
C23_NineFramesInTenSeconds ==
    /\ (phase = "Tracking" /\ now >= startedAt + 10) => Len(frameLog) >= 9
    /\ phase = "Tracking" => Len(frameLog) \in {now - startedAt - 1, now - startedAt}
    /\ \A i \in 1..(Len(frameLog) - 1) : frameLog[i] < frameLog[i + 1]

\* ten seconds after startTracking, the tenth tick still due: 9 frames so far
C23_Witness ==
    /\ phase = "Tracking"
    /\ now = startedAt + 10
    /\ Len(frameLog) = 9

----------------------------------------------------------------------------
(* C24 *)

\* C24: a callback registered on the service belongs to the provider mounted
\* now: after an unmount none of the provider's callbacks is registered, and
\* no event is delivered to callbacks of two providers.
C24_NoSubscriptionAfterUnmount ==
    /\ \A e \in Events : \A i \in 1..Len(listeners[e]) :
          mounted /\ listeners[e][i] = ProviderCallbacks[generation]
    /\ \A i \in 1..Len(calls) : \A j \in 1..Len(calls) :
          calls[i][2] = calls[j][2] => calls[i][1] = calls[j][1]

----------------------------------------------------------------------------
(* C25 *)

DisconnectedStatus(reason) ==
    [event |-> "connection_status", data |-> [connected |-> FALSE, reason |-> reason]]

\* the step is the 'disconnect' event of a socket of WebSocketService, with
\* the reason the event carries: from the transport, or from disconnect() and
\* reconnect() closing a connected socket
W_DisconnectReason ==
    IF last'.op = "disconnect_event" THEN last'.arg
    ELSE IF last'.op \in {"disconnect", "reconnect"} /\ cur # 0 /\ socks[cur] = "connected"
    THEN "io client disconnect"
    ELSE "none"

\* C25: on a 'disconnect' event WebSocketService publishes connection_status
\* {connected: false, reason}; with the reason "io server disconnect" it
\* schedules no timer and leaves the attempt counter alone; with any other
\* reason it goes through handleReconnection: below the limit the counter
\* goes up by one and one retry is scheduled.
C25_ServerDisconnectNoRetry ==
    [][(svc = "W" /\ W_DisconnectReason # "none") =>
          /\ emitted'[1] = DisconnectedStatus(W_DisconnectReason)
          /\ IF W_DisconnectReason = "io server disconnect"
             THEN /\ Len(emitted') = 1
                  /\ timers' = timers
                  /\ reconnectAttempts' = reconnectAttempts
             ELSE IF last'.op = "reconnect"
             THEN /\ reconnectAttempts' = 0
                  /\ timers' = Append(timers, W_Timer(reconnectAttempts + 1,
                                                      Backoff[reconnectAttempts + 1], cur))
             ELSE IF reconnectAttempts < maxReconnectAttempts
             THEN /\ reconnectAttempts' = reconnectAttempts + 1
                  /\ timers' = Append(timers, W_Timer(reconnectAttempts',
                                                      Backoff[reconnectAttempts'], cur))
             ELSE /\ timers' = timers
                  /\ emitted'[2] = MaxReached]_vars

\* the server closed the connection: the status is out and no retry is pending
C25_Witness ==
    /\ svc = "W"
    /\ last.op = "disconnect_event"
    /\ last.arg = "io server disconnect"
    /\ emitted = <<DisconnectedStatus("io server disconnect")>>
    /\ timers = <<>>

----------------------------------------------------------------------------
(* C26 *)

\* the step runs a retry callback of WebSocketService that was scheduled for
\* a socket which disconnect() or reconnect() has dropped since
StaleRetryFires ==
    /\ svc = "W"
    /\ last'.op = "timer"
    /\ \E k \in 1..Len(timers) :
          /\ Due(k)
          /\ timers' = RemoveAt(timers, k)
          /\ timers[k].id # cur

\* C26: a retry scheduled before disconnect() or reconnect() does nothing when
\* it fires afterwards: no socket is connected by it, the socket reconnect()
\* made included.
C26_StaleRetryIsNoOp ==
    [][StaleRetryFires =>
          /\ socks' = socks
          /\ nAttempts' = nAttempts
          /\ emitted' = <<>>]_vars

----------------------------------------------------------------------------
(* C27 *)

\* C27: the attempt counter of a connection manager stays within 0 and the
\* retry limit of 5, whatever the order of events and however many retries
\* are pending at once.
C27_CounterWithinLimit ==
    0 <= reconnectAttempts /\ reconnectAttempts <= maxReconnectAttempts

----------------------------------------------------------------------------
(* C28 *)

\* the sockets that carry the service's handlers and are open, opening or
\* being reopened by socket.io: those an event can still come from
LiveSockets == {i \in 1..Len(socks) : socks[i] \in {"connecting", "connected", "reopening"}}

\* C28: RealWebSocketService has at most one live socket with its handlers
\* attached; a retry leaves no earlier socket alive next to the new one.
C28_OneLiveSocket == Cardinality(LiveSockets) <= 1

----------------------------------------------------------------------------
(* C29 *)

\* C29: at most one tick interval is live, and a live interval is the one
\* whose handle focusSimulationInterval keeps: every other interval ever
\* created has been cleared.
C29_OneLiveInterval ==
    /\ Len(LiveTicks(timers)) <= 1
    /\ \A k \in 1..Len(timers) :
          timers[k].kind = "Mtick" => timers[k].id = focusSimulationInterval

----------------------------------------------------------------------------
(* C30 *)

\* how many times x occurs in seq
Count(seq, x) == Len(SelectSeq(seq, LAMBDA y : y = x))

\* C30: in an emit during which a callback calls off(), on itself or on the
\* other callback, every callback registered when the emit began and not the
\* one unsubscribed is invoked once for each of its registrations.
C30_EmitWithOffReachesAll ==
    [][last'.op \in {"emit_off_self", "emit_off_other"} =>
          LET ev == last'.arg
              target == IF last'.op = "emit_off_self" THEN last'.cb ELSE Other(last'.cb)
          IN \A c \in Callbacks \ {target} :
                Count(calls', <<c, ev>>) = Count(listeners[ev], c)]_vars

=============================================================================
